---- MODULE Spec2Model ----
(***************************************************************************)
(* The request gateway of the image caption client (frontend/lib/api.js): *)
(* makeRequest with its timeout timer and AbortController, validateFile,   *)
(* and the three public operations generateCaption, batchGenerateCaptions  *)
(* and checkHealth.  Each call of a public operation is one element of     *)
(* Calls; the transport (fetch, the response body stream) and the clock    *)
(* are the environment.                                                    *)
(***************************************************************************)
EXTENDS Integers, Sequences, FiniteSets, TLC

(* ------------------------------ API_CONFIG ----------------------------- *)

Timeout == 60000

MaxFileSize == 10 * 1024 * 1024

MaxBatchSize == 3

(* ------------------------------- bounds -------------------------------- *)

\* The clock advances by at most TickMs at a time and stops at MaxTime.
TickMs == 60000

MaxTime == 120000

\* batchGenerateCaptions is called with MaxBatchSize - 1 up to
\* MaxBatchSize + ExtraBatch files.
ExtraBatch == 1

\* The overlapping calls of the public operations.
Calls == {"c1", "c2"}

(* ------------------------------- inputs -------------------------------- *)

FileSizes == {MaxFileSize, MaxFileSize + 1, 13238272}

FileTypes == {"image/png", "text/plain"}

Files == [size : FileSizes, type : FileTypes]

CaptionOptions ==
    { [method |-> "", beamWidth |-> 0],
      [method |-> "beam_search", beamWidth |-> 3] }

\* The batch path validates no file: every batch holds this invalid file.
BatchFile == [size |-> MaxFileSize + 1, type |-> "text/plain"]

Batches == { [i \in 1..n |-> BatchFile] : n \in (MaxBatchSize - 1)..(MaxBatchSize + ExtraBatch) }

Statuses == {200, 400, 408, 500, 503}

BodyTexts ==
    { "{\"detail\": \"model unavailable\"}",
      "{\"detail\": \"\"}",
      "{\"status\": \"ok\"}",
      "null",
      "<html>Bad Gateway</html>" }

(* ------------------------------ strings -------------------------------- *)

\* String.prototype.startsWith
StartsWith(s, p) == Len(s) >= Len(p) /\ SubSeq(s, 1, Len(p)) = p

\* String.prototype.includes
Includes(s, sub) ==
    \E i \in 1..(Len(s) - Len(sub) + 1) : SubSeq(s, i, i + Len(sub) - 1) = sub

\* Array.prototype.join
RECURSIVE Join(_, _)
Join(strs, sep) ==
    IF Len(strs) = 0 THEN ""
    ELSE IF Len(strs) = 1 THEN strs[1]
    ELSE strs[1] \o sep \o Join(Tail(strs), sep)

\* (size / 1024 / 1024).toFixed(2): size / 2^20 is exact in a double, and
\* toFixed picks the nearest multiple of 0.01, the larger one on a tie.
ToFixed2MB(size) ==
    LET n == (size * 100 + 524288) \div 1048576
        frac == n % 100
    IN  ToString(n \div 100) \o "."
            \o (IF frac < 10 THEN "0" ELSE "") \o ToString(frac)

(* ------------------------------- errors -------------------------------- *)

\* A thrown value: name, message and (APIError only) status.
Thrown(name, message, status) ==
    [name |-> name, message |-> message, status |-> status]

APIError(message, status) == Thrown("APIError", message, status)

\* What fetch rejects with when its signal is aborted.
AbortError == Thrown("AbortError", "The operation was aborted.", 0)

\* What fetch rejects with on a network fault.
FetchFailed == Thrown("TypeError", "Failed to fetch", 0)

\* What response.json() rejects with on a body that is no JSON.
JsonSyntaxError == Thrown("SyntaxError", "Unexpected token in JSON", 0)

\* What reading a property of null throws.
NullPropertyError ==
    Thrown("TypeError", "Cannot read properties of null (reading 'detail')", 0)

(* ------------------------------ outcomes ------------------------------- *)

Pending == [state |-> "pending", value |-> "", error |-> Thrown("", "", 0)]

Resolved(v) == [state |-> "resolved", value |-> v, error |-> Thrown("", "", 0)]

Rejected(e) == [state |-> "rejected", value |-> "", error |-> e]

(* ----------------------------- JSON bodies ----------------------------- *)

\* A decoded JSON value: whether it is null, and its detail property
\* (<<>> when the value has none).
Json(isNull, detail, value) ==
    [isNull |-> isNull, detail |-> detail, value |-> value]

\* The {} that the .catch(() => ({})) of line 29 yields.
EmptyObject == Json(FALSE, <<>>, "{}")

\* response.json(): the decoded body, or a rejection.
ResponseJson(text) ==
    CASE text = "{\"detail\": \"model unavailable\"}" ->
             [ok |-> TRUE, json |-> Json(FALSE, <<"model unavailable">>, text)]
      [] text = "{\"detail\": \"\"}" ->
             [ok |-> TRUE, json |-> Json(FALSE, <<"">>, text)]
      [] text = "{\"status\": \"ok\"}" ->
             [ok |-> TRUE, json |-> Json(FALSE, <<>>, text)]
      [] text = "null" ->
             [ok |-> TRUE, json |-> Json(TRUE, <<>>, text)]
      [] OTHER ->
             [ok |-> FALSE, json |-> EmptyObject]

\* response.ok
ResponseOk(status) == 200 <= status /\ status <= 299

\* errorData.detail || `HTTP ${response.status}`
ErrorMessage(errorData, status) ==
    IF errorData.detail # <<>> /\ errorData.detail[1] # ""
    THEN errorData.detail[1]
    ELSE "HTTP " \o ToString(status)

\* ErrorFromBody with the status written as a literal instead of
\* response.status.
ErrorFromBodyFixedStatus(errorData, status) ==
    IF errorData.isNull
    THEN NullPropertyError
    ELSE APIError(ErrorMessage(errorData, status), 500)

\* Lines 30-33: what the non-2xx branch throws for the decoded error body.
ErrorFromBody(errorData, status) ==
    IF errorData.isNull
    THEN NullPropertyError
    ELSE APIError(ErrorMessage(errorData, status), status)

\* Lines 39-42: what the catch block throws for the error it caught.
CatchBlock(error) ==
    IF error.name = "AbortError"
    THEN APIError("Request timeout", 408)
    ELSE error

(* ----------------------------- validators ------------------------------ *)

\* validateFile without its media type check.
validateFileSizeOnly(file) ==
    IF file.size > MaxFileSize
    THEN << "File too large (" \o ToFixed2MB(file.size) \o "MB). Max: 10MB" >>
    ELSE <<>>

\* validateFile returning at its first violation.
validateFileFirstOnly(file) ==
    IF file.size > MaxFileSize
    THEN << "File too large (" \o ToFixed2MB(file.size) \o "MB). Max: 10MB" >>
    ELSE IF ~StartsWith(file.type, "image/")
    THEN << "File must be an image" >>
    ELSE <<>>

validateFile(file) ==
    (IF file.size > MaxFileSize
     THEN << "File too large (" \o ToFixed2MB(file.size) \o "MB). Max: 10MB" >>
     ELSE <<>>)
    \o
    (IF ~StartsWith(file.type, "image/")
     THEN << "File must be an image" >>
     ELSE <<>>)

\* Line 79: the batch cardinality check.
BatchTooLarge(files) == Len(files) > MaxBatchSize

BatchMessage == "Max " \o ToString(MaxBatchSize) \o " files allowed"

\* Lines 66-70: the multipart fields of a caption request.
CaptionFields(options) ==
    << <<"file", "(binary)">> >>
    \o (IF options.method # "" THEN << <<"method", options.method>> >> ELSE <<>>)
    \o (IF options.beamWidth # 0
        THEN << <<"beam_width", ToString(options.beamWidth)>> >> ELSE <<>>)

\* Line 84: one files field per file.
BatchFields(files) == [i \in 1..Len(files) |-> <<"files", "(binary)">>]

(* ------------------------------- state --------------------------------- *)

VARIABLES
    pc,                \* where each call is: idle, fetching, abortPending,
                       \* errBody, okBody, done
    input,             \* the operation and arguments of each call
    validationErrors,  \* generateCaption's validationErrors
    request,           \* the url and options handed to fetch
    outcome,           \* the promise the caller holds
    aborted,           \* controller.signal.aborted of each call
    armed,             \* the calls whose timeoutId is armed in the runtime
    deadline,          \* when each call's timer expires
    created,           \* how many timers each call has created
    fetches,           \* how many fetch calls each call has issued
    inflight,          \* the calls whose network operation is in flight
    respStatus,        \* response.status, 0 before any response
    respBody,          \* the body text read from the response
    now                \* the clock, in ms

vars == << pc, input, validationErrors, request, outcome, aborted, armed,
           deadline, created, fetches, inflight, respStatus, respBody, now >>

NoFile == [size |-> 0, type |-> ""]

NoOptions == [method |-> "", beamWidth |-> 0]

NoInput == [op |-> "none", file |-> NoFile, options |-> NoOptions, files |-> <<>>]

NoRequest == [url |-> "", method |-> "", fields |-> <<>>]

Init ==
    /\ pc = [c \in Calls |-> "idle"]
    /\ input = [c \in Calls |-> NoInput]
    /\ validationErrors = [c \in Calls |-> <<>>]
    /\ request = [c \in Calls |-> NoRequest]
    /\ outcome = [c \in Calls |-> Pending]
    /\ aborted = [c \in Calls |-> FALSE]
    /\ armed = {}
    /\ deadline = [c \in Calls |-> 0]
    /\ created = [c \in Calls |-> 0]
    /\ fetches = [c \in Calls |-> 0]
    /\ inflight = {}
    /\ respStatus = [c \in Calls |-> 0]
    /\ respBody = [c \in Calls |-> ""]
    /\ now = 0

(* ----------------------------- makeRequest ----------------------------- *)

\* setTimeout(..., API_CONFIG.timeout), line 18
SetTimeout(ts, c) == ts \cup {c}

\* Line 26 left out: the timer stays armed after the response.
ClearOnResponseSkipped(ts, c) == ts

\* clearTimeout(timeoutId) after the response arrived, line 26
ClearOnResponse(ts, c) == ts \ {c}

\* Line 38 left out: the timer stays armed after a caught error.
ClearOnCatchSkipped(ts, c) == ts

\* clearTimeout(timeoutId) in the catch block, line 38
ClearOnCatch(ts, c) == ts \ {c}

\* A timer callback that aborts nothing.
AbortNothing(ab, c) == ab

\* One controller shared by all calls: aborting one aborts every signal.
AbortEvery(ab, c) == [d \in DOMAIN ab |-> TRUE]

\* controller.abort(), line 18: the signal of this call's own controller
Abort(ab, c) == [ab EXCEPT ![c] = TRUE]

\* Lines 17-24: the controller, the timer and the fetch call.
StartRequest(c, url, method, fields) ==
    /\ now + Timeout <= MaxTime
    /\ request' = [request EXCEPT ![c] =
                      [url |-> url, method |-> method, fields |-> fields]]
    /\ armed' = SetTimeout(armed, c)
    /\ created' = [created EXCEPT ![c] = @ + 1]
    /\ deadline' = [deadline EXCEPT ![c] = now + Timeout]
    /\ fetches' = [fetches EXCEPT ![c] = @ + 1]
    /\ inflight' = inflight \cup {c}
    /\ pc' = [pc EXCEPT ![c] = "fetching"]
    /\ UNCHANGED << outcome, aborted, respStatus, respBody, now >>

\* A call that rejects before makeRequest is reached.
RejectEarly(c, error) ==
    /\ outcome' = [outcome EXCEPT ![c] = Rejected(error)]
    /\ pc' = [pc EXCEPT ![c] = "done"]
    /\ UNCHANGED << request, aborted, armed, deadline, created, fetches,
                    inflight, respStatus, respBody, now >>

\* The call settles from inside makeRequest's try block with a thrown error:
\* the catch block clears the timer and translates the error.
SettleThrown(c, error) ==
    /\ armed' = ClearOnCatch(armed, c)
    /\ outcome' = [outcome EXCEPT ![c] = Rejected(CatchBlock(error))]
    /\ pc' = [pc EXCEPT ![c] = "done"]
    /\ inflight' = inflight \ {c}

(* -------------------------- public operations -------------------------- *)

generateCaption(c, file, options) ==
    /\ pc[c] = "idle"
    /\ input' = [input EXCEPT ![c] =
                    [op |-> "generateCaption", file |-> file,
                     options |-> options, files |-> <<>>]]
    /\ validationErrors' = [validationErrors EXCEPT ![c] = validateFile(file)]
    /\ IF Len(validateFile(file)) > 0
       THEN RejectEarly(c, APIError(Join(validateFile(file), ", "), 400))
       ELSE StartRequest(c, "/generate-caption", "POST", CaptionFields(options))

batchGenerateCaptions(c, files) ==
    /\ pc[c] = "idle"
    /\ input' = [input EXCEPT ![c] =
                    [op |-> "batchGenerateCaptions", file |-> NoFile,
                     options |-> NoOptions, files |-> files]]
    /\ UNCHANGED validationErrors
    /\ IF BatchTooLarge(files)
       THEN RejectEarly(c, APIError(BatchMessage, 400))
       ELSE StartRequest(c, "/batch-generate", "POST", BatchFields(files))

checkHealth(c) ==
    /\ pc[c] = "idle"
    /\ input' = [input EXCEPT ![c] =
                    [op |-> "checkHealth", file |-> NoFile,
                     options |-> NoOptions, files |-> <<>>]]
    /\ UNCHANGED validationErrors
    /\ StartRequest(c, "/health", "GET", <<>>)

(* --------------------------- transport events -------------------------- *)

\* fetch resolves with a response: lines 26-29 or 26-36 up to the body read.
ResponseArrives(c, status) ==
    /\ pc[c] = "fetching"
    /\ armed' = ClearOnResponse(armed, c)
    /\ respStatus' = [respStatus EXCEPT ![c] = status]
    /\ pc' = [pc EXCEPT ![c] = IF ResponseOk(status) THEN "okBody" ELSE "errBody"]
    /\ UNCHANGED << input, validationErrors, request, outcome, aborted,
                    deadline, created, fetches, inflight, respBody, now >>

\* fetch rejects on its own (no connection, DNS, CORS): lines 37-42.
NetworkFault(c) ==
    /\ pc[c] = "fetching"
    /\ SettleThrown(c, FetchFailed)
    /\ UNCHANGED << input, validationErrors, request, aborted, deadline,
                    created, fetches, respStatus, respBody, now >>

\* The body read of a non-2xx response settles: lines 29-33, then 37-42.
\* An aborted signal makes the read reject; any rejection yields {}.
ErrBodyRead(c, text) ==
    /\ pc[c] = "errBody"
    /\ respBody' = [respBody EXCEPT ![c] = text]
    /\ LET read == ResponseJson(text)
           errorData == IF aborted[c] \/ ~read.ok THEN EmptyObject ELSE read.json
       IN  SettleThrown(c, ErrorFromBody(errorData, respStatus[c]))
    /\ UNCHANGED << input, validationErrors, request, aborted, deadline,
                    created, fetches, respStatus, now >>

\* The body read of a 2xx response settles: line 36, then 37-42 on rejection.
OkBodyRead(c, text) ==
    /\ pc[c] = "okBody"
    /\ respBody' = [respBody EXCEPT ![c] = text]
    /\ LET read == ResponseJson(text)
       IN  IF aborted[c]
           THEN SettleThrown(c, AbortError)
           ELSE IF ~read.ok
           THEN SettleThrown(c, JsonSyntaxError)
           ELSE /\ outcome' = [outcome EXCEPT ![c] = Resolved(read.json.value)]
                /\ pc' = [pc EXCEPT ![c] = "done"]
                /\ inflight' = inflight \ {c}
                /\ UNCHANGED armed
    /\ UNCHANGED << input, validationErrors, request, aborted, deadline,
                    created, fetches, respStatus, now >>

(* ------------------------------ the timer ------------------------------ *)

\* The timer callback of line 18 runs: controller.abort().  A pending fetch
\* rejects with AbortError and its continuation is queued.
TimerFire(c) ==
    /\ c \in armed
    /\ now >= deadline[c]
    /\ armed' = armed \ {c}
    /\ aborted' = Abort(aborted, c)
    /\ IF pc[c] = "fetching" /\ Abort(aborted, c)[c]
       THEN /\ pc' = [pc EXCEPT ![c] = "abortPending"]
            /\ inflight' = inflight \ {c}
       ELSE UNCHANGED << pc, inflight >>
    /\ UNCHANGED << input, validationErrors, request, outcome, deadline,
                    created, fetches, respStatus, respBody, now >>

\* The continuation of the aborted fetch: lines 37-40.
AbortCatch(c) ==
    /\ pc[c] = "abortPending"
    /\ SettleThrown(c, AbortError)
    /\ UNCHANGED << input, validationErrors, request, aborted, deadline,
                    created, fetches, respStatus, respBody, now >>

(* ------------------------------ the clock ------------------------------ *)

Min(a, b) == IF a <= b THEN a ELSE b

\* The earliest of t and the deadlines of the armed timers.
RECURSIVE Earliest(_, _)
Earliest(t, cs) ==
    IF cs = {} THEN t
    ELSE LET c == CHOOSE x \in cs : TRUE
         IN  Earliest(Min(t, deadline[c]), cs \ {c})

\* Time passes: never past a due timer or a queued continuation, which the
\* event loop runs first.
Tick ==
    /\ now < MaxTime
    /\ \A c \in armed : deadline[c] > now
    /\ \A c \in Calls : pc[c] # "abortPending"
    /\ now' = Earliest(Min(now + TickMs, MaxTime), armed)
    /\ UNCHANGED << pc, input, validationErrors, request, outcome, aborted,
                    armed, deadline, created, fetches, inflight, respStatus,
                    respBody >>

(* --------------------------- specifications ---------------------------- *)

Next ==
    \/ \E c \in Calls, f \in Files, o \in CaptionOptions : generateCaption(c, f, o)
    \/ \E c \in Calls, fs \in Batches : batchGenerateCaptions(c, fs)
    \/ \E c \in Calls : checkHealth(c)
    \/ \E c \in Calls, s \in Statuses : ResponseArrives(c, s)
    \/ \E c \in Calls : NetworkFault(c)
    \/ \E c \in Calls, t \in BodyTexts : ErrBodyRead(c, t)
    \/ \E c \in Calls, t \in BodyTexts : OkBodyRead(c, t)
    \/ \E c \in Calls : TimerFire(c)
    \/ \E c \in Calls : AbortCatch(c)
    \/ Tick

Spec == Init /\ [][Next]_vars

\* The event loop runs due timers and queued continuations, and time passes;
\* the transport owes nothing.
FairSpec ==
    /\ Spec
    /\ WF_vars(Tick)
    /\ \A c \in Calls : WF_vars(TimerFire(c)) /\ WF_vars(AbortCatch(c))

(* ------------------------------- claims -------------------------------- *)

Started(c) == pc[c] # "idle"

Settled(c) == pc[c] = "done"

IsResolved(c) == outcome[c].state = "resolved"

IsAPIError(c) ==
    outcome[c].state = "rejected" /\ outcome[c].error.name = "APIError"

\* The call ended in the 408 of the client's own timeout, its fetch aborted.
TimedOut(c) ==
    /\ Settled(c)
    /\ aborted[c]
    /\ c \notin inflight
    /\ outcome[c] = Rejected(APIError("Request timeout", 408))

\* The transport settled the fetch by itself: a response or a network fault.
TransportSettled(c) ==
    \/ respStatus[c] # 0
    \/ Settled(c) /\ outcome[c] = Rejected(FetchFailed)

\* A 2xx response whose body is no JSON.
MalformedSuccess(c) ==
    /\ ResponseOk(respStatus[c])
    /\ ~ResponseJson(respBody[c]).ok

\* C1: every settled call ends in the decoded payload or in an APIError, a
\* 2xx response with an undecodable body being the only exception.
C1_PayloadOrGatewayError ==
    \A c \in Calls :
        Settled(c) => IsResolved(c) \/ IsAPIError(c) \/ MalformedSuccess(c)

\* C2: a generateCaption call whose fetch is pending either sees its
\* transport settle or is aborted by its timer and rejects with
\* APIError("Request timeout", 408); and a settled call keeps its outcome.
C2_TimeoutRejectsAndSticks ==
    /\ \A c \in Calls :
          (pc[c] = "fetching" /\ input[c].op = "generateCaption")
              ~> (TransportSettled(c) \/ TimedOut(c))
    /\ [][\A c \in Calls :
             Settled(c) => Settled(c)' /\ outcome'[c] = outcome[c]]_vars

C2_Witness ==
    \E c \in Calls :
        /\ input[c].op = "generateCaption"
        /\ TimedOut(c)
        /\ respStatus[c] = 0
        /\ now >= deadline[c]

\* C3: no call is still pending after the instant its timer expires.
C3_HardDeadline ==
    \A c \in Calls : Started(c) /\ ~Settled(c) => now <= deadline[c]

\* The arguments of call c fail validation (stated on the arguments).
InvalidFile(c) ==
    /\ input[c].op = "generateCaption"
    /\ \/ input[c].file.size > 10 * 1024 * 1024
       \/ ~StartsWith(input[c].file.type, "image/")

OversizedBatch(c) ==
    /\ input[c].op = "batchGenerateCaptions"
    /\ Len(input[c].files) > 3

\* C4: a call with an invalid file or more than 3 batch files is rejected
\* with status 400 (the batch with "Max 3 files allowed") and has armed no
\* timer and issued no fetch.
C4_ValidationBeforeTransport ==
    \A c \in Calls :
        /\ InvalidFile(c) \/ OversizedBatch(c) =>
              /\ Settled(c)
              /\ IsAPIError(c)
              /\ outcome[c].error.status = 400
              /\ created[c] = 0
              /\ fetches[c] = 0
              /\ c \notin armed
              /\ c \notin inflight
              /\ request[c] = NoRequest
        /\ OversizedBatch(c) => outcome[c].error.message = "Max 3 files allowed"

C4_Witness ==
    \E c, d \in Calls :
        /\ InvalidFile(c) /\ Settled(c)
        /\ OversizedBatch(d) /\ Settled(d)

\* C5 as claimed: 408 only from the client timeout, 400 only from a
\* validation failure without network call, remote errors some other status.
C5_StatusIdentifiesOrigin ==
    \A c \in Calls :
        Settled(c) /\ IsAPIError(c) =>
            /\ outcome[c].error.status = 408 => aborted[c] /\ respStatus[c] = 0
            /\ outcome[c].error.status = 400 => fetches[c] = 0
            /\ respStatus[c] # 0 => outcome[c].error.status \notin {400, 408}

\* C5 amended: the timeout gives 408 "Request timeout", a validation failure
\* gives 400 with no timer and no fetch, and an APIError made from a response
\* carries that response's non-2xx status, whatever it is.
C5_StatusFollowsOrigin ==
    \A c \in Calls :
        /\ Settled(c) /\ IsAPIError(c) =>
              \/ /\ fetches[c] = 0 /\ created[c] = 0 /\ respStatus[c] = 0
                 /\ outcome[c].error.status = 400
              \/ /\ fetches[c] = 1 /\ aborted[c] /\ respStatus[c] = 0
                 /\ outcome[c].error = APIError("Request timeout", 408)
              \/ /\ fetches[c] = 1 /\ ~aborted[c] /\ respStatus[c] # 0
                 /\ outcome[c].error.status = respStatus[c]
                 /\ ~(200 <= respStatus[c] /\ respStatus[c] <= 299)
        /\ Settled(c) /\ fetches[c] = 0 =>
              IsAPIError(c) /\ outcome[c].error.status = 400
        /\ Settled(c) /\ aborted[c] =>
              IsAPIError(c) /\ outcome[c].error.status = 408

C5_Witness ==
    \E c, d \in Calls :
        /\ Settled(c) /\ IsAPIError(c) /\ respStatus[c] = 408
        /\ outcome[c].error.status = 408 /\ ~aborted[c]
        /\ TimedOut(d)

\* The message C6 claims for a non-2xx response with the given body.
ClaimedMessages(status, text) ==
    IF text = "{\"detail\": \"model unavailable\"}"
    THEN {"model unavailable"}
    ELSE IF text = "{\"detail\": \"\"}"
    THEN {"", "HTTP " \o ToString(status)}
    ELSE {"HTTP " \o ToString(status)}

\* C6: a non-2xx response rejects with an APIError of the response's status
\* whose message is the body's detail, or "HTTP <status>" without one.
C6_RemoteErrorMessage ==
    \A c \in Calls :
        Settled(c) /\ respStatus[c] # 0 /\ ~ResponseOk(respStatus[c]) =>
            /\ IsAPIError(c)
            /\ outcome[c].error.status = respStatus[c]
            /\ outcome[c].error.message
                   \in ClaimedMessages(respStatus[c], respBody[c])

\* C7: a settled call's timer is not armed.
C7_NoLeakedTimer ==
    \A c \in Calls : Settled(c) => c \notin armed

C7_Witness ==
    \E c, d \in Calls :
        /\ Settled(c) /\ created[c] = 1 /\ outcome[c] = Rejected(FetchFailed)
        /\ Settled(d) /\ created[d] = 1 /\ MalformedSuccess(d)

\* C8: validateFile returns no violation iff the file is at most 10 MiB and
\* an image; a file breaking both rules is rejected with status 400 and the
\* size message, ", ", and the type message.
C8_AllViolationsReported ==
    \A c \in Calls :
        input[c].op = "generateCaption" =>
            LET f == input[c].file
                tooBig == f.size > 10 * 1024 * 1024
                notImage == ~StartsWith(f.type, "image/")
                errs == validationErrors[c]
                msg == outcome[c].error.message
            IN  /\ (errs = <<>>) <=> (~tooBig /\ ~notImage)
                /\ tooBig /\ notImage =>
                      /\ Settled(c) /\ IsAPIError(c)
                      /\ outcome[c].error.status = 400
                      /\ Len(errs) = 2
                      /\ Includes(errs[1], "10MB")
                      /\ errs[2] = "File must be an image"
                      /\ msg = errs[1] \o ", " \o errs[2]
                /\ f.size = 10485761 /\ notImage =>
                      msg = "File too large (10.00MB). Max: 10MB, File must be an image"
                /\ f.size = 13238272 /\ notImage =>
                      msg = "File too large (12.63MB). Max: 10MB, File must be an image"

C8_Witness ==
    \E c \in Calls :
        /\ input[c].op = "generateCaption"
        /\ input[c].file.size > 10 * 1024 * 1024
        /\ ~StartsWith(input[c].file.type, "image/")
        /\ Len(validationErrors[c]) = 2
        /\ Settled(c)

\* Everything that belongs to one call.
CallState(c) ==
    << pc[c], input[c], validationErrors[c], request[c], outcome[c],
       aborted[c], c \in armed, deadline[c], created[c], fetches[c],
       c \in inflight, respStatus[c], respBody[c] >>

\* C9: a call that reached makeRequest created exactly one timer and issued
\* one fetch, and no step changes the state of two calls: an event of one
\* call leaves every other call's outcome, timer and signal as they were.
C9_CallsIndependent ==
    /\ [](\A c \in Calls :
            /\ created[c] = fetches[c] /\ created[c] <= 1
            /\ request[c] # NoRequest => created[c] = 1
            /\ c \in armed \/ c \in inflight => created[c] = 1)
    /\ [][\A c, d \in Calls :
             c # d => CallState(c)' = CallState(c) \/ CallState(d)' = CallState(d)]_vars

C9_Witness ==
    \E c, d \in Calls :
        /\ c # d
        /\ TimedOut(c)
        /\ pc[d] = "fetching" /\ d \in armed /\ ~aborted[d]

\* C10: a call whose response arrived has its timer disarmed and is never
\* aborted, and an aborted call took no response and ends in the 408.
C10_SingleWinner ==
    \A c \in Calls :
        /\ respStatus[c] # 0 => ~aborted[c] /\ c \notin armed
        /\ aborted[c] =>
              /\ respStatus[c] = 0
              /\ pc[c] \in {"abortPending", "done"}
              /\ Settled(c) => outcome[c] = Rejected(APIError("Request timeout", 408))

C10_Witness ==
    \E c, d \in Calls :
        /\ Settled(c) /\ respStatus[c] # 0 /\ now > deadline[c] /\ ~aborted[c]
        /\ TimedOut(d)

====
